---- MODULE Spec2Model ----
(***************************************************************************)
(* uzum-payments: the request dispatch and error classification layer.     *)
(*                                                                         *)
(* Two clients are modelled: ApiClient (client.py), which carries its own  *)
(* _post / _async_post / _raise_for_status, and ReceiptApiClient           *)
(* (receipt_producer/client.py), which inherits Connection                 *)
(* (connection.py) and classifies through raise_error.                     *)
(*                                                                         *)
(* Python values are records [t, i, s] (type tag, integer payload, string  *)
(* payload) so that None, integers and strings can be compared.  A decoded *)
(* JSON object is a function from its keys to such values.                 *)
(***************************************************************************)
EXTENDS Integers, Sequences, FiniteSets, Bags, TLC

\* Bounds of the model (not program constants).
MaxInFlight == 1
MaxCloses == 2
MaxTasks == 2

-----------------------------------------------------------------------------
\* Python values

PyNone == [t |-> "NoneType", i |-> 0, s |-> ""]
PyInt(n) == [t |-> "int", i |-> n, s |-> ""]
PyStr(str) == [t |-> "str", i |-> 0, s |-> str]
\* the JSON object {"orderId": id}
PyOrder(id) == [t |-> "dict", i |-> 0, s |-> id]

\* bool(v): None, 0 and "" are falsy
Truthy(v) ==
    CASE v.t = "NoneType" -> FALSE
      [] v.t = "int" -> v.i # 0
      [] v.t = "str" -> v.s # ""
      [] OTHER -> TRUE

EmptyDict == [k \in {} |-> PyNone]

\* dict.get(key): the value, or None when the key is absent
dict_get(d, key) == IF key \in DOMAIN d THEN d[key] ELSE PyNone

-----------------------------------------------------------------------------
\* Response bodies the server may send

\* application error codes: absent is modelled by the key being absent
ErrorCodes == {-1, 0, 999, 1000, 1999, 2000, 2999, 3000, 4000, 4999, 5000}
Statuses == {200, 400, 401, 403, 404, 422, 500}
Messages == {"", "declined"}

\* a body with the given optional fields (a field is absent when its flag is FALSE)
Body(hasCode, code, hasResult, hasMsg, msg) ==
    [k \in ((IF hasCode THEN {"errorCode"} ELSE {})
            \cup (IF hasResult THEN {"result"} ELSE {})
            \cup (IF hasMsg THEN {"message"} ELSE {})) |->
        CASE k = "errorCode" -> PyInt(code)
          [] k = "result" -> PyOrder("X")
          [] OTHER -> PyStr(msg)]

\* success-shaped bodies carry a result, failure-shaped bodies may carry a message
Bodies ==
    {Body(FALSE, 0, r, FALSE, "") : r \in BOOLEAN}
    \cup {Body(TRUE, c, TRUE, FALSE, "") : c \in ErrorCodes}
    \cup {Body(TRUE, c, FALSE, TRUE, m) : c \in {0, 4000}, m \in Messages}
    \cup {Body(FALSE, 0, FALSE, TRUE, "declined")}

\* the text of a response: the serialization of a JSON object, or not JSON at all
JsonText(doc) == [raw |-> "json", doc |-> doc]
NotJson == [raw |-> "not-json", doc |-> EmptyDict]
Texts == {JsonText(b) : b \in Bodies} \cup {NotJson}

\* json.loads(text): the decoded object, or JSONDecodeError
json_loads(text) ==
    IF text.raw = "json"
    THEN [ok |-> TRUE, data |-> text.doc]
    ELSE [ok |-> FALSE, data |-> EmptyDict]

-----------------------------------------------------------------------------
\* Exceptions and call outcomes

\* the message attribute of an exception: a decoded body or a string
MsgDict(d) == [t |-> "dict", d |-> d, s |-> ""]
MsgStr(str) == [t |-> "str", d |-> EmptyDict, s |-> str]
NoMsg == [t |-> "none", d |-> EmptyDict, s |-> ""]

Exc(type, message, code) == [type |-> type, message |-> message, code |-> code]

\* an __init__ that keeps the body whatever its 'message' field is
UzumCheckoutException_body_only(type, message, code) ==
    Exc(type, MsgDict(message), code)

\* UzumCheckoutException.__init__(message, code)
UzumCheckoutException(type, message, code) ==
    LET m == dict_get(message, "message")
    IN  Exc(type, IF Truthy(m) THEN MsgStr(m.s) ELSE MsgDict(message), code)

\* NotResponding()
NotResponding == Exc("NotResponding", MsgStr("API request timed out, please be patient."), PyInt(504))

\* NetworkError()
NetworkError == Exc("NetworkError", MsgStr("Network down."), PyInt(503))

\* an exception raised by the interpreter or a library, not by this package
Foreign(type) == Exc(type, NoMsg, PyNone)

\* `raise C` with C a class: C is instantiated with no arguments;
\* json.JSONDecodeError(msg, doc, pos) has three required arguments
RaiseClass(c) ==
    CASE c = "JSONDecodeError" -> Foreign("TypeError")
      [] c = "NotResponding" -> NotResponding
      [] c = "NetworkError" -> NetworkError
      [] OTHER -> Foreign(c)

Return(data) == [kind |-> "return", value |-> data, exc |-> Foreign("")]
Raise(e) == [kind |-> "raise", value |-> EmptyDict, exc |-> e]

\* error_code > n where the code has error_code >= n
GE_strict(error_code, n) == error_code.t = "int" /\ error_code.i > n

\* error_code >= n: None is not ordered against int
GE(error_code, n) == error_code.t = "int" /\ error_code.i >= n

-----------------------------------------------------------------------------
\* connection.py: the classifier

\* raise_error with the application bands tried before the HTTP status
raise_error_bands_first(data, error_code, status_code) ==
    IF GE(error_code, 5000) THEN Raise(UzumCheckoutException("InternalError", data, error_code))
    ELSE IF GE(error_code, 3000) THEN Raise(UzumCheckoutException("PaymentErrors", data, error_code))
    ELSE IF GE(error_code, 2000) THEN Raise(UzumCheckoutException("ValidationError", data, error_code))
    ELSE IF GE(error_code, 1000) THEN Raise(UzumCheckoutException("AuthenticationError", data, error_code))
    ELSE IF status_code = 400 THEN Raise(UzumCheckoutException("BadRequest", data, error_code))
    ELSE IF status_code = 401 THEN Raise(UzumCheckoutException("SignatureError", data, error_code))
    ELSE IF status_code = 403 THEN Raise(UzumCheckoutException("FingerprintError", data, error_code))
    ELSE IF status_code = 422 THEN Raise(UzumCheckoutException("ValidationError", data, error_code))
    ELSE IF status_code = 500 THEN Raise(UzumCheckoutException("InternalServerError", data, error_code))
    ELSE IF error_code.t # "int" THEN Raise(Foreign("TypeError"))
    ELSE Raise(UzumCheckoutException("UnexpectedError", data, error_code))

raise_error(data, error_code, status_code) ==
    IF status_code = 400 THEN Raise(UzumCheckoutException("BadRequest", data, error_code))
    ELSE IF status_code = 401 THEN Raise(UzumCheckoutException("SignatureError", data, error_code))
    ELSE IF status_code = 403 THEN Raise(UzumCheckoutException("FingerprintError", data, error_code))
    ELSE IF status_code = 422 THEN Raise(UzumCheckoutException("ValidationError", data, error_code))
    ELSE IF status_code = 500 THEN Raise(UzumCheckoutException("InternalServerError", data, error_code))
    ELSE IF error_code.t # "int" THEN Raise(Foreign("TypeError"))
    ELSE IF GE(error_code, 5000) THEN Raise(UzumCheckoutException("InternalError", data, error_code))
    ELSE IF GE(error_code, 3000) THEN Raise(UzumCheckoutException("PaymentErrors", data, error_code))
    ELSE IF GE(error_code, 2000) THEN Raise(UzumCheckoutException("ValidationError", data, error_code))
    ELSE IF GE(error_code, 1000) THEN Raise(UzumCheckoutException("AuthenticationError", data, error_code))
    ELSE Raise(UzumCheckoutException("UnexpectedError", data, error_code))

\* Connection._raise_for_status(resp, text, method)
Connection_raise_for_status(status_code, text) ==
    LET parsed == json_loads(text)
        data == parsed.data
        error_code == dict_get(data, "errorCode")
    IN  IF ~parsed.ok THEN Raise(RaiseClass("JSONDecodeError"))
        ELSE IF ~Truthy(error_code) /\ status_code = 200 THEN Return(data)
        ELSE raise_error(data, error_code, status_code)

\* ApiClient._raise_for_status with `error_code is None` for `not error_code`
ApiClient_raise_for_status_is_none(status_code, text) ==
    LET parsed == json_loads(text)
        data == parsed.data
        error_code == dict_get(data, "errorCode")
    IN  IF ~parsed.ok THEN Raise(RaiseClass("JSONDecodeError"))
        ELSE IF error_code.t = "NoneType" THEN Return(data)
        ELSE raise_error(data, error_code, 0)

\* ApiClient._raise_for_status(resp, text, method)
ApiClient_raise_for_status(status_code, text) ==
    LET parsed == json_loads(text)
        data == parsed.data
        error_code == dict_get(data, "errorCode")
    IN  IF ~parsed.ok THEN Raise(RaiseClass("JSONDecodeError"))
        ELSE IF ~Truthy(error_code) THEN Return(data)
        ELSE IF GE(error_code, 5000) THEN Raise(UzumCheckoutException("InternalError", data, error_code))
        ELSE IF GE(error_code, 3000) THEN Raise(UzumCheckoutException("PaymentErrors", data, error_code))
        ELSE IF GE(error_code, 2000) THEN Raise(UzumCheckoutException("ValidationError", data, error_code))
        ELSE IF GE(error_code, 1000) THEN Raise(UzumCheckoutException("AuthenticationError", data, error_code))
        ELSE Raise(UzumCheckoutException("UnexpectedError", data, error_code))

-----------------------------------------------------------------------------
\* The transport: what happens to a request handed to the session

\* a response with a status and a text, a failure before any response, or a
\* failure after the status line and headers while the body is read
TransportFailures == {"read_timeout", "connect_timeout", "refused", "reset", "disconnected"}
BodyFailures == {"body_timeout", "body_lost"}
Response(status, text) == [kind |-> "response", status |-> status, text |-> text]
Failure(kind) == [kind |-> kind, status |-> 0, text |-> NotJson]
NoTransport == Failure("none")
Responses == {Response(st, tx) : st \in Statuses, tx \in Texts}
TransportBehaviours ==
    Responses \cup {Failure(k) : k \in TransportFailures \cup BodyFailures}

\* the exception requests.Session.request raises for a transport failure
requests_raises(kind) ==
    CASE kind = "read_timeout" -> "requests.ReadTimeout"
      [] kind = "connect_timeout" -> "requests.ConnectTimeout"
      [] kind = "body_lost" -> "requests.ChunkedEncodingError"
      [] OTHER -> "requests.ConnectionError"

\* the exception aiohttp.ClientSession.request raises for a transport failure
aiohttp_raises(kind) ==
    CASE kind = "read_timeout" -> "asyncio.TimeoutError"
      [] kind = "connect_timeout" -> "aiohttp.ServerTimeoutError"
      [] kind = "refused" -> "aiohttp.ClientConnectorError"
      [] kind = "reset" -> "aiohttp.ClientOSError"
      [] kind = "body_timeout" -> "asyncio.TimeoutError"
      [] kind = "body_lost" -> "aiohttp.ClientPayloadError"
      [] OTHER -> "aiohttp.ServerDisconnectedError"

\* the classes an exception of the given class is an instance of
Bases(c) ==
    {c} \cup
    CASE c = "requests.ReadTimeout" -> {"requests.Timeout"}
      [] c = "requests.ConnectTimeout" -> {"requests.ConnectionError", "requests.Timeout"}
      [] c = "aiohttp.ServerTimeoutError" -> {"aiohttp.ServerConnectionError", "aiohttp.ClientConnectionError", "asyncio.TimeoutError"}
      [] c = "aiohttp.ClientConnectorError" -> {"aiohttp.ClientOSError", "aiohttp.ClientConnectionError"}
      [] c = "aiohttp.ClientOSError" -> {"aiohttp.ClientConnectionError"}
      [] c = "aiohttp.ServerDisconnectedError" -> {"aiohttp.ServerConnectionError", "aiohttp.ClientConnectionError"}
      [] OTHER -> {}

IsInstance(e, c) == c \in Bases(e.type)

\* what leaves `with self.session.request(...) as resp: return handler(resp, resp.text)`
\* before the except clauses are tried
SyncBody(o, t) ==
    IF t.kind = "response" THEN o ELSE Raise(Foreign(requests_raises(t.kind)))

\* what leaves `async with self.session.request(...) as resp: return handler(resp, await resp.text())`
AsyncBody(o, t) ==
    IF t.kind = "response" THEN o ELSE Raise(Foreign(aiohttp_raises(t.kind)))

\* the two except clauses of _request / _post in the other order
ExceptRequests_swapped(o) ==
    IF o.kind = "raise" /\ IsInstance(o.exc, "requests.ConnectionError") THEN Raise(RaiseClass("NetworkError"))
    ELSE IF o.kind = "raise" /\ IsInstance(o.exc, "requests.Timeout") THEN Raise(RaiseClass("NotResponding"))
    ELSE o

\* except requests.Timeout / except requests.ConnectionError, in this order
ExceptRequests(o) ==
    IF o.kind = "raise" /\ IsInstance(o.exc, "requests.Timeout") THEN Raise(RaiseClass("NotResponding"))
    ELSE IF o.kind = "raise" /\ IsInstance(o.exc, "requests.ConnectionError") THEN Raise(RaiseClass("NetworkError"))
    ELSE o

\* except asyncio.TimeoutError / except aiohttp.ServerDisconnectedError, in this order
ExceptAiohttp(o) ==
    IF o.kind = "raise" /\ IsInstance(o.exc, "asyncio.TimeoutError") THEN Raise(RaiseClass("NotResponding"))
    ELSE IF o.kind = "raise" /\ IsInstance(o.exc, "aiohttp.ServerDisconnectedError") THEN Raise(RaiseClass("NetworkError"))
    ELSE o

-----------------------------------------------------------------------------
\* Requests

\* the request handed to the transport; its headers are self.headers
Request(url, method, json) == [url |-> url, method |-> method, json |-> json]

\* a call of one of the four request functions, not yet run
Call(fn, url, data, method) == [fn |-> fn, url |-> url, data |-> data, method |-> method]

\* Connection._request_model(url, data, method)
Connection_request_model(self_is_async, url, data, method) ==
    IF self_is_async
    THEN Call("_async_request", url, data, method)
    ELSE Call("_request", url, data, "POST")

\* ApiClient._post_model(url, data)
ApiClient_post_model(self_is_async, url, data) ==
    IF self_is_async
    THEN Call("_async_post", url, data, "POST")
    ELSE Call("_post", url, data, "POST")

\* the request a call hands to the session:
\* session.request(url=url, method=method, headers=self.headers, json=data)
\* or session.post(url, headers=self.headers, json=data)
Handed(call) ==
    IF call.fn \in {"_post", "_async_post"}
    THEN Request(call.url, "POST", call.data)
    ELSE Request(call.url, call.method, call.data)

\* Connection._request, given what the transport did
Connection_request(t) ==
    ExceptRequests(SyncBody(Connection_raise_for_status(t.status, t.text), t))

\* Connection._async_request, given what the transport did
Connection_async_request(t) ==
    ExceptAiohttp(AsyncBody(Connection_raise_for_status(t.status, t.text), t))

\* ApiClient._post, given what the transport did
ApiClient_post(t) ==
    ExceptRequests(SyncBody(ApiClient_raise_for_status(t.status, t.text), t))

\* ApiClient._async_post, given what the transport did
ApiClient_async_post(t) ==
    ExceptAiohttp(AsyncBody(ApiClient_raise_for_status(t.status, t.text), t))

\* the outcome of a request function once the transport has acted
Finish(fn, t) ==
    CASE fn = "_request" -> Connection_request(t)
      [] fn = "_async_request" -> Connection_async_request(t)
      [] fn = "_post" -> ApiClient_post(t)
      [] OTHER -> ApiClient_async_post(t)

-----------------------------------------------------------------------------
\* Construction

\* strings that are cut and joined are sequences of tokens, "/" a token of its own
URL == <<"https:", "/", "/", "www.inplat-tech.ru", "/", "api", "/", "v1", "/">>
BASE_RECEIPT_URL == <<"https:", "/", "/", "www.inplat-tech.ru", "/", "arp", "/">>

\* the sessions of the two transports
NewSession(kind) == [kind |-> kind, closed |-> FALSE]

\* session or (aiohttp.ClientSession() if is_async else requests.Session())
SessionOr(session, is_async_arg) ==
    IF session # "None" THEN NewSession(session)
    ELSE IF is_async_arg THEN NewSession("aiohttp.ClientSession")
    ELSE NewSession("requests.Session")

\* headers.update({name: value})
update(h, name, value) == (name :> value) @@ h

\* self.headers with `is not None` where the code tests the truth value
ApiClient_headers_presence(c) ==
    LET h0 == [k \in {"X-Signature", "Content-Language", "X-Terminal-Id", "Accept",
                      "Accept-Encoding", "Cache-Control", "Content-Type"} |->
                 CASE k = "X-Signature" -> c.signature
                   [] k = "Content-Language" -> c.content_language
                   [] k = "X-Terminal-Id" -> c.terminal_id
                   [] k = "Accept" -> "application/json"
                   [] k = "Accept-Encoding" -> "gzip,deflate,sdch"
                   [] k = "Cache-Control" -> "no-cache"
                   [] OTHER -> "application/json"]
        h1 == IF c.merchant_access_token # PyNone
              THEN update(h0, "X-Merchant-Access-Token", c.merchant_access_token.s) ELSE h0
        h2 == IF c.fingerprint # PyNone THEN update(h1, "X-Fingerprint", c.fingerprint.s) ELSE h1
    IN  IF c.api_key # PyNone THEN update(h2, "X-API-Key", c.api_key.s) ELSE h2

\* ApiClient.__init__: self.headers
ApiClient_headers(c) ==
    LET h0 == [k \in {"X-Signature", "Content-Language", "X-Terminal-Id", "Accept",
                      "Accept-Encoding", "Cache-Control", "Content-Type"} |->
                 CASE k = "X-Signature" -> c.signature
                   [] k = "Content-Language" -> c.content_language
                   [] k = "X-Terminal-Id" -> c.terminal_id
                   [] k = "Accept" -> "application/json"
                   [] k = "Accept-Encoding" -> "gzip,deflate,sdch"
                   [] k = "Cache-Control" -> "no-cache"
                   [] OTHER -> "application/json"]
        h1 == IF Truthy(c.merchant_access_token)
              THEN update(h0, "X-Merchant-Access-Token", c.merchant_access_token.s) ELSE h0
        h2 == IF Truthy(c.fingerprint) THEN update(h1, "X-Fingerprint", c.fingerprint.s) ELSE h1
    IN  IF Truthy(c.api_key) THEN update(h2, "X-API-Key", c.api_key.s) ELSE h2

\* ApiClient.__init__
ApiClient_init(c) ==
    [cls |-> "ApiClient",
     headers |-> ApiClient_headers(c),
     base_url |-> c.base_url,
     session |-> SessionOr(c.session, c.is_async),
     is_async |-> c.is_async]

\* ReceiptApiClient.__init__: self.headers
ReceiptApiClient_headers(c) ==
    [k \in {"ssl-client-fingerprint", "Accept", "Accept-Encoding", "Cache-Control", "Content-Type"} |->
        CASE k = "ssl-client-fingerprint" -> c.fingerprint.s
          [] k = "Accept" -> "application/json"
          [] k = "Accept-Encoding" -> "gzip,deflate,sdch"
          [] k = "Cache-Control" -> "no-cache"
          [] OTHER -> "application/json"]

\* ReceiptApiClient.__init__: self.base_url
ReceiptApiClient_base_url(b) == IF b[Len(b)] # "/" THEN b \o <<"/">> ELSE b

\* ReceiptApiClient.__init__
ReceiptApiClient_init(c) ==
    [cls |-> "ReceiptApiClient",
     headers |-> ReceiptApiClient_headers(c),
     base_url |-> ReceiptApiClient_base_url(c.base_url),
     session |-> SessionOr(c.session, c.is_async),
     is_async |-> c.is_async]

\* the session a caller supplies for a mode, when it supplies one
SessionFor(is_async_arg) ==
    IF is_async_arg THEN "aiohttp.ClientSession" ELSE "requests.Session"

\* the constructor calls of the model: ApiClient as the tests build it
\* (terminal_id, api_key and base_url given), ReceiptApiClient with its defaults;
\* both through __init__ and through Async, each creating its own session
\* (a supplied session is among ConstructorInputs)
ConstructorCalls ==
    {[cls |-> k, signature |-> "sig", terminal_id |-> "term",
      merchant_access_token |-> PyNone, content_language |-> "ru-RU",
      fingerprint |-> IF k = "ApiClient" THEN PyNone ELSE PyStr("fp"),
      api_key |-> IF k = "ApiClient" THEN PyStr("key") ELSE PyNone,
      base_url |-> IF k = "ApiClient" THEN URL ELSE BASE_RECEIPT_URL,
      session |-> "None", is_async |-> a] :
        k \in {"ApiClient", "ReceiptApiClient"}, a \in BOOLEAN}

\* an optional credential: omitted, empty (as os.getenv('api_key', '') gives
\* in the tests), or a value
Optional(v) == {PyNone, PyStr(""), PyStr(v)}

\* a base_url without a trailing separator
CustomUrl == <<"https:", "/", "/", "host", "/", "api">>

\* the session argument: omitted, or a session of either transport
SessionArgs == {"None", "requests.Session", "aiohttp.ClientSession"}

\* constructor calls over the optional arguments
ConstructorInputs ==
    {[cls |-> "ApiClient", signature |-> "sig", terminal_id |-> "term",
      merchant_access_token |-> m, content_language |-> "ru-RU",
      fingerprint |-> f, api_key |-> k, base_url |-> b, session |-> se, is_async |-> a] :
        m \in Optional("tok"), f \in Optional("fp"), k \in Optional("key"),
        b \in {URL, CustomUrl}, se \in SessionArgs, a \in BOOLEAN}
    \cup
    {[cls |-> "ReceiptApiClient", signature |-> "sig", terminal_id |-> "term",
      merchant_access_token |-> PyNone, content_language |-> "ru-RU",
      fingerprint |-> PyStr("fp"), api_key |-> PyNone, base_url |-> b,
      session |-> se, is_async |-> a] :
        b \in {BASE_RECEIPT_URL, CustomUrl}, se \in SessionArgs, a \in BOOLEAN}

construct(c) == IF c.cls = "ApiClient" THEN ApiClient_init(c) ELSE ReceiptApiClient_init(c)

-----------------------------------------------------------------------------
\* Endpoint methods: each builds a url and a payload (modelled by its keys)
\* and returns what _post_model / _request_model returns

register(b, a) ==
    ApiClient_post_model(a, b \o <<"payment", "/", "register">>,
        {"amount", "clientId", "currency", "paymentDetails", "orderNumber", "successUrl",
         "failureUrl", "viewType", "merchantParams", "sessionTimeoutSecs", "paymentParams"})
merchant_pay(b, a) ==
    ApiClient_post_model(a, b \o <<"payment", "/", "merchantPay">>, {"processData", "orderId"})
get_order_status(b, a) ==
    ApiClient_post_model(a, b \o <<"payment", "/", "getOrderStatus">>, {"orderId"})
get_operation_state(b, a) ==
    ApiClient_post_model(a, b \o <<"payment", "/", "getOperationState">>, {"operationId"})
complete(b, a) ==
    ApiClient_post_model(a, b \o <<"acquiring", "/", "complete">>, {"orderId", "amount"})
refund(b, a) ==
    ApiClient_post_model(a, b \o <<"acquiring", "/", "refund">>, {"orderId", "amount"})
reverse(b, a) ==
    ApiClient_post_model(a, b \o <<"acquiring", "/", "reverse">>, {"orderId", "amount"})
get_bindings(b, a) ==
    ApiClient_post_model(a, b \o <<"acquiring", "/", "getBindings">>, {"clientId"})

health(b, a) ==
    Connection_request_model(a, b \o <<"health">>, {}, "GET")
fiscal_receipt_generation(b, a, payment_id) ==
    Connection_request_model(a, b \o <<"fiscal_receipt_generation">>,
        {"operation_id", "date_time", "receipt_type", "cash_amount", "card_amount",
         "phone_number", "items"} \cup (IF Truthy(payment_id) THEN {"payment_id"} ELSE {}),
        "POST")
fiscal_receipt_refund(b, a, payment_id) ==
    Connection_request_model(a, b \o <<"fiscal_receipt_refund">>,
        {"operation_id", "date_time", "receipt_type", "cash_amount", "card_amount", "items"}
        \cup (IF Truthy(payment_id) THEN {"payment_id"} ELSE {}),
        "POST")
save_qr_code_url(b, a) ==
    Connection_request_model(a, b \o <<"save_qr_code_url">>,
        {"operation_id", "qr_code_url", "amount"}, "POST")

\* the endpoint calls a caller can make on a client
EndpointCalls(cls_, b, a) ==
    IF cls_ = "ApiClient"
    THEN {register(b, a), merchant_pay(b, a), get_order_status(b, a), get_operation_state(b, a),
          complete(b, a), refund(b, a), reverse(b, a), get_bindings(b, a)}
    ELSE {health(b, a), save_qr_code_url(b, a)}
         \cup {fiscal_receipt_generation(b, a, p) : p \in {PyNone, PyStr("pay")}}
         \cup {fiscal_receipt_refund(b, a, p) : p \in {PyNone, PyStr("pay")}}

\* Connection.close / ApiClient.close: return self.session.close()
\* (requests.Session.close and aiohttp.ClientSession.close raise nothing and
\* leave a closed session closed)
\* a close() that raises on a session that is closed already
close_raises_when_closed(s) == [session |-> [s EXCEPT !.closed = TRUE], raised |-> s.closed]
Connection_close(s) == [session |-> [s EXCEPT !.closed = TRUE], raised |-> FALSE]
ApiClient_close(s) == [session |-> [s EXCEPT !.closed = TRUE], raised |-> FALSE]

-----------------------------------------------------------------------------
\* State

VARIABLES
    cls,          \* the class of the client
    is_async,     \* self.is_async
    headers,      \* self.headers
    base_url,     \* self.base_url
    session,      \* self.session: its kind and whether it has been closed
    sent,         \* the request handed to the transport last
    pending,      \* the bag of calls in flight, each suspended in its request function
    last,         \* the call that ended last: what the transport did, how the call ended
    closes,       \* the number of close() calls that have run
    close_raised, \* whether a close() call has raised
    args,         \* the arguments the constructor was called with
    tasks,        \* the caller's concurrent tasks, each awaiting one call, and
                  \* the order in which their calls ended
    ctx           \* the caller's `async with client:` block

vars == <<cls, is_async, headers, base_url, session, sent, pending, last, closes, close_raised,
          args, tasks, ctx>>

\* what the operations of the client itself never touch
caller == <<args, tasks, ctx>>

NoRequest == Request(<<>>, "", {})
NoCall == [transport |-> NoTransport, outcome |-> [kind |-> "none", value |-> EmptyDict, exc |-> Foreign("")]]

\* a task that has not called yet, is waiting for the response, is reading
\* the body of the response whose status it has, or has its outcome
IdleTask == [st |-> "idle", fn |-> "", status |-> 0, transport |-> NoTransport,
             outcome |-> NoCall.outcome]
\* what the transport holds for the request of a task: the status of the
\* response once it has arrived (0 before), and what became of the request
\* once that is settled (the response with its body, or a failure)
NoWire == [status |-> 0, t |-> NoTransport]

\* no task has called; issued: the tasks with a call in flight, in order of
\* issue; seen: whether a call has ended before one issued later, and before
\* one issued earlier, that was in flight with it
NoTasks == [call |-> [i \in 1..MaxTasks |-> IdleTask], wire |-> [i \in 1..MaxTasks |-> NoWire],
            issued |-> <<>>, seen |-> {}]

\* the block has not been entered
Outside == [st |-> "outside", raised |-> Foreign(""), propagated |-> Foreign("")]

\* the state after one of the given constructor calls
InitFrom(calls) ==
    \E c \in calls :
        LET self == construct(c)
        IN  /\ cls = self.cls
            /\ args = c
            /\ tasks = NoTasks
            /\ ctx = Outside
            /\ is_async = self.is_async
            /\ headers = self.headers
            /\ base_url = self.base_url
            /\ session = self.session
            /\ sent = NoRequest
            /\ pending = EmptyBag
            /\ last = NoCall
            /\ closes = 0
            /\ close_raised = FALSE

Init == InitFrom(ConstructorCalls)

\* the session is of the transport the request functions of the mode use
Matched == session.kind = SessionFor(is_async)

\* a blocking caller waits for its call; a suspending caller may issue more
CanCall == BagCardinality(pending) < (IF is_async THEN MaxInFlight ELSE 1)

\* a call in flight: its request function, and the status of its response
\* once the response has arrived (0 before)
InFlight(fn, status) == [fn |-> fn, status |-> status]

\* one more, and one fewer, of the calls in flight like p
Put(bag, p) == bag (+) SetToBag({p})
Take(bag, p) == bag (-) SetToBag({p})

\* what the transport can do next for a call in flight.  A blocking call is
\* suspended once, in session.request(...), which also reads the body.  A
\* suspending call is suspended in `async with session.request(...) as resp`
\* until the response arrives or the request fails, and again in
\* `await resp.text()` until the body is read or reading it fails.
Arrivals(p, behaviours) ==
    IF p.fn \in {"_request", "_post"} THEN behaviours
    ELSE IF p.status = 0 THEN {t \in behaviours : t.kind \in TransportFailures}
    ELSE {t \in behaviours : (t.kind = "response" /\ t.status = p.status)
                                \/ t.kind \in BodyFailures}

\* the statuses a response can arrive with
StatusesOf(behaviours) == {t.status : t \in {b \in behaviours : b.kind = "response"}}

\* An endpoint method is called (and awaited, in suspending mode): the request
\* function hands its request to the session and waits for the transport.
Send ==
    /\ CanCall
    /\ Matched
    /\ ~(session.kind = "aiohttp.ClientSession" /\ session.closed)
    /\ \E call \in EndpointCalls(cls, base_url, is_async) :
          /\ sent' = Handed(call)
          /\ pending' = Put(pending, InFlight(call.fn, 0))
    /\ UNCHANGED <<cls, is_async, headers, base_url, session, last, closes, close_raised, caller>>

\* The same on a closed aiohttp session: ClientSession._request raises
\* RuntimeError("Session is closed") and no request reaches the transport.
SendClosed ==
    /\ CanCall
    /\ Matched
    /\ session.kind = "aiohttp.ClientSession" /\ session.closed
    /\ \E call \in EndpointCalls(cls, base_url, is_async) :
          last' = [transport |-> NoTransport,
                   outcome |-> ExceptAiohttp(Raise(Foreign("RuntimeError")))]
    /\ UNCHANGED <<cls, is_async, headers, base_url, session, sent, pending, closes, close_raised, caller>>


\* The response to a suspending call arrives: the call is resumed in
\* `async with ... as resp` with the status, and suspended again in
\* `await resp.text()`.
RespondOver(behaviours) ==
    /\ \E p \in BagToSet(pending), st \in StatusesOf(behaviours) :
          /\ p.fn \in {"_async_request", "_async_post"}
          /\ p.status = 0
          /\ pending' = Put(Take(pending, p), InFlight(p.fn, st))
    /\ UNCHANGED <<cls, is_async, headers, base_url, session, sent, last, closes, close_raised, caller>>

\* The transport ends the wait of a call in flight (the body has been read,
\* or the request or the reading has failed); the call runs to its end.
CompleteOver(behaviours) ==
    /\ \E p \in BagToSet(pending) :
          \E t \in Arrivals(p, behaviours) :
              /\ last' = [transport |-> t, outcome |-> Finish(p.fn, t)]
              /\ pending' = Take(pending, p)
    /\ UNCHANGED <<cls, is_async, headers, base_url, session, sent, closes, close_raised, caller>>

Respond == RespondOver(TransportBehaviours)

Complete == CompleteOver(TransportBehaviours)

\* close() is called (and awaited, in suspending mode, as tests/test_async.py does)
Close ==
    /\ closes < MaxCloses
    /\ Matched
    /\ is_async \/ pending = EmptyBag
    /\ LET r == IF cls = "ApiClient" THEN ApiClient_close(session) ELSE Connection_close(session)
       IN  /\ session' = r.session
           /\ close_raised' = (close_raised \/ r.raised)
    /\ closes' = closes + 1
    /\ UNCHANGED <<cls, is_async, headers, base_url, sent, pending, last, caller>>

Next == Send \/ SendClosed \/ Respond \/ Complete \/ Close

Spec == Init /\ [][Next]_vars

-----------------------------------------------------------------------------
\* Construction over all optional arguments

\* the transport behaviours of the specifications that vary something else
SomeBehaviours ==
    {Response(200, JsonText(Body(TRUE, 0, TRUE, FALSE, ""))),
     Response(200, JsonText(Body(TRUE, 4000, FALSE, TRUE, "declined"))),
     Response(500, JsonText(Body(FALSE, 0, FALSE, TRUE, "declined"))),
     Response(404, NotJson),
     Failure("read_timeout"),
     Failure("refused"),
     Failure("body_lost")}

\* Respond and Complete, over SomeBehaviours
RespondSome == RespondOver(SomeBehaviours)

CompleteSome == CompleteOver(SomeBehaviours)

\* `with x:` / `async with x:` on an object without __enter__ / __aenter__:
\* TypeError from Python 3.11 on, AttributeError before
NoProtocolErrors == {"TypeError", "AttributeError"}

\* An endpoint method is called on a client whose session is of the other
\* transport.  Blocking mode, aiohttp session: session.request(...) only
\* builds a context manager that `with` rejects; no request is made.
\* Suspending mode, requests session: session.request(...) performs the
\* request at once, its exceptions are none the except clauses name, and
\* `async with` rejects the response.
SendMismatched ==
    /\ CanCall
    /\ ~Matched
    /\ \E call \in EndpointCalls(cls, base_url, is_async), e \in NoProtocolErrors :
          IF is_async
          THEN \E t \in SomeBehaviours :
                  /\ sent' = Handed(call)
                  /\ last' = [transport |-> t,
                              outcome |-> ExceptAiohttp(
                                  IF t.kind = "response" THEN Raise(Foreign(e))
                                  ELSE Raise(Foreign(requests_raises(t.kind))))]
          ELSE /\ sent' = sent
               /\ last' = [transport |-> NoTransport, outcome |-> ExceptRequests(Raise(Foreign(e)))]
    /\ UNCHANGED <<cls, is_async, headers, base_url, session, pending, closes, close_raised, caller>>

\* close() on such a client.  Blocking mode, aiohttp session: the coroutine
\* close() returns is never awaited and the session stays open.  Suspending
\* mode, requests session: the session is closed and `await None` raises.
CloseMismatched ==
    /\ closes < MaxCloses
    /\ ~Matched
    /\ IF is_async
       THEN /\ session' = [session EXCEPT !.closed = TRUE]
            /\ close_raised' = TRUE
       ELSE UNCHANGED <<session, close_raised>>
    /\ closes' = closes + 1
    /\ UNCHANGED <<cls, is_async, headers, base_url, sent, pending, last, caller>>

NextConstruct ==
    Send \/ SendClosed \/ SendMismatched \/ RespondSome \/ CompleteSome \/ Close \/ CloseMismatched

SpecConstruct == InitFrom(ConstructorInputs) /\ [][NextConstruct]_vars

-----------------------------------------------------------------------------
\* Concurrent calls on one suspending-mode client

\* the endpoint methods the concurrent tasks call
TaskCalls(cls_, b, a) ==
    IF cls_ = "ApiClient"
    THEN {register(b, a), get_order_status(b, a)}
    ELSE {health(b, a), save_qr_code_url(b, a)}

\* what the transport does to the requests of the concurrent tasks
TaskBehaviours ==
    {Response(200, JsonText(Body(TRUE, 0, TRUE, FALSE, ""))),
     Response(500, JsonText(Body(TRUE, 4000, FALSE, TRUE, "declined"))),
     Failure("read_timeout"),
     Failure("body_lost")}

\* A task calls an endpoint method and awaits it (again, once its previous
\* call has ended): its request is handed to the session, nothing has come
\* back for it yet, and the task is suspended in `async with ... as resp`.
IssueTask ==
    /\ Matched /\ ~session.closed
    /\ \E i \in 1..MaxTasks, call \in TaskCalls(cls, base_url, is_async) :
          /\ tasks.call[i].st \in {"idle", "done"}
          /\ sent' = Handed(call)
          /\ pending' = Put(pending, InFlight(call.fn, 0))
          /\ tasks' = [tasks EXCEPT !.call[i] = [IdleTask EXCEPT !.st = "waiting", !.fn = call.fn],
                                    !.wire[i] = NoWire,
                                    !.issued = Append(@, i)]
    /\ UNCHANGED <<cls, is_async, headers, base_url, session, last, closes, close_raised, args, ctx>>

\* The transport, for the request of one task: the response arrives with its
\* status, or the request fails before any response.  The task is not
\* resumed yet.
DeliverHead ==
    /\ \E i \in 1..MaxTasks :
          /\ tasks.call[i].st = "waiting"
          /\ tasks.wire[i] = NoWire
          /\ \/ \E st \in StatusesOf(TaskBehaviours) :
                  tasks' = [tasks EXCEPT !.wire[i].status = st]
             \/ \E t \in Arrivals(InFlight(tasks.call[i].fn, 0), TaskBehaviours) :
                  tasks' = [tasks EXCEPT !.wire[i].t = t]
    /\ UNCHANGED <<cls, is_async, headers, base_url, session, sent, pending, last, closes,
                   close_raised, args, ctx>>

\* The transport, for a response that has arrived: its body arrives whole,
\* or reading it fails.  The task may not have been resumed with the
\* response yet.
DeliverBody ==
    /\ \E i \in 1..MaxTasks :
          /\ tasks.call[i].st \in {"waiting", "reading"}
          /\ tasks.wire[i].status # 0 /\ tasks.wire[i].t = NoTransport
          /\ \E t \in Arrivals(InFlight(tasks.call[i].fn, tasks.wire[i].status), TaskBehaviours) :
                  tasks' = [tasks EXCEPT !.wire[i].t = t]
    /\ UNCHANGED <<cls, is_async, headers, base_url, session, sent, pending, last, closes,
                   close_raised, args, ctx>>

\* the call of task i ends, having got t from the transport: the request
\* function's except clauses and handler give its outcome; the calls issued
\* before it and after it that are still in flight are noted
EndTask(i, t) ==
    LET c == tasks.call[i]
        o == Finish(c.fn, t)
        pos == CHOOSE k \in 1..Len(tasks.issued) : tasks.issued[k] = i
    IN  /\ tasks' = [tasks EXCEPT
                        !.call[i] = [c EXCEPT !.st = "done", !.transport = t, !.outcome = o],
                        !.issued = SelectSeq(@, LAMBDA x : x # i),
                        !.seen = @ \cup (IF pos < Len(tasks.issued) THEN {"in_order"} ELSE {})
                                   \cup (IF pos > 1 THEN {"reversed"} ELSE {})]
        /\ last' = [transport |-> t, outcome |-> o]
        /\ pending' = Take(pending, InFlight(c.fn, c.status))

\* A waiting task is resumed in `async with self.session.request(...) as
\* resp`: with the response of its own request, which it keeps in its local
\* resp before it is suspended again in `await resp.text()`; or with the
\* failure of its own request, which ends the call.
ResumeHead ==
    /\ \E i \in 1..MaxTasks :
          /\ tasks.call[i].st = "waiting"
          /\ tasks.wire[i] # NoWire
          /\ IF tasks.wire[i].status # 0
             THEN /\ tasks' = [tasks EXCEPT !.call[i].st = "reading",
                                            !.call[i].status = tasks.wire[i].status]
                  /\ pending' = Put(Take(pending, InFlight(tasks.call[i].fn, 0)),
                                    InFlight(tasks.call[i].fn, tasks.wire[i].status))
                  /\ last' = last
             ELSE EndTask(i, tasks.wire[i].t)
    /\ UNCHANGED <<cls, is_async, headers, base_url, session, sent, closes, close_raised, args, ctx>>

\* the response kept in an attribute of the client that every call sets,
\* not in a local of the coroutine: the task reads the body of whichever
\* response the transport has finished
ResumeBody_any ==
    /\ \E i \in 1..MaxTasks, j \in 1..MaxTasks :
          /\ tasks.call[i].st = "reading"
          /\ tasks.wire[j].t # NoTransport
          /\ EndTask(i, IF tasks.wire[j].t.kind = "response"
                        THEN Response(tasks.wire[j].status, tasks.wire[j].t.text)
                        ELSE tasks.wire[j].t)
    /\ UNCHANGED <<cls, is_async, headers, base_url, session, sent, closes, close_raised, args, ctx>>

\* A reading task is resumed in `await resp.text()` with the body of the
\* response in its local resp, or with the failure of reading it, and runs
\* self._raise_for_status(resp, text, method) on its locals to the end.
ResumeBody ==
    /\ \E i \in 1..MaxTasks :
          /\ tasks.call[i].st = "reading"
          /\ tasks.wire[i].t # NoTransport
          /\ EndTask(i, IF tasks.wire[i].t.kind = "response"
                        THEN Response(tasks.call[i].status, tasks.wire[i].t.text)
                        ELSE tasks.wire[i].t)
    /\ UNCHANGED <<cls, is_async, headers, base_url, session, sent, closes, close_raised, args, ctx>>

NextConcurrent == IssueTask \/ DeliverHead \/ DeliverBody \/ ResumeHead \/ ResumeBody

SpecConcurrent == InitFrom({c \in ConstructorCalls : c.is_async}) /\ [][NextConcurrent]_vars

-----------------------------------------------------------------------------
\* `async with client:` around one awaited call, on a suspending-mode ApiClient

NoExc == Foreign("")

\* ApiClient.__aexit__: return self.close().  The coroutine that
\* session.close() returns is handed back without being awaited: the session
\* stays as it is, and the value returned is a true one.
ApiClient_aexit(s) == [session |-> s, returned_true |-> TRUE]

\* ApiClient.__aenter__, on a client that has not been used yet
AEnter ==
    /\ cls = "ApiClient" /\ is_async /\ Matched
    /\ ctx.st = "outside" /\ sent = NoRequest /\ last = NoCall
    /\ ctx' = [ctx EXCEPT !.st = "inside"]
    /\ UNCHANGED <<cls, is_async, headers, base_url, session, sent, pending, last, closes,
                   close_raised, args, tasks>>

\* The call awaited in the body has ended, by returning or by raising, and
\* the block is left: __aexit__ runs with the exception, which propagates
\* unless __aexit__ returns a true value.
AExit ==
    /\ ctx.st = "inside" /\ pending = EmptyBag /\ last # NoCall
    /\ closes < MaxCloses
    /\ LET exc == IF last.outcome.kind = "raise" THEN last.outcome.exc ELSE NoExc
           r == ApiClient_aexit(session)
       IN  /\ session' = r.session
           /\ ctx' = [st |-> "after", raised |-> exc,
                      propagated |-> IF r.returned_true THEN NoExc ELSE exc]
    /\ closes' = closes + 1
    /\ UNCHANGED <<cls, is_async, headers, base_url, sent, pending, last, close_raised, args, tasks>>

NextContext == AEnter \/ Send \/ SendClosed \/ RespondSome \/ CompleteSome \/ Close \/ AExit

SpecContext ==
    InitFrom({c \in ConstructorCalls : c.cls = "ApiClient" /\ c.is_async}) /\ [][NextContext]_vars

-----------------------------------------------------------------------------
\* Properties

FiveStatuses == {400, 401, 403, 422, 500}

\* the error kind the HTTP status fixes
KindOfStatus(st) ==
    CASE st = 400 -> "BadRequest"
      [] st = 401 -> "SignatureError"
      [] st = 403 -> "FingerprintError"
      [] st = 422 -> "ValidationError"
      [] OTHER -> "InternalServerError"

\* the error kind of the band an application error code lies in
KindOfBand(c) ==
    CASE c >= 5000 -> "InternalError"
      [] c >= 3000 /\ c < 5000 -> "PaymentErrors"
      [] c >= 2000 /\ c < 3000 -> "ValidationError"
      [] c >= 1000 /\ c < 2000 -> "AuthenticationError"
      [] OTHER -> "UnexpectedError"

\* the last call ended on a response whose text is a JSON object
GotJson == last.transport.kind = "response" /\ last.transport.text.raw = "json"
LastStatus == last.transport.status
LastData == last.transport.text.doc
LastHasCode == "errorCode" \in DOMAIN LastData
LastCode == dict_get(LastData, "errorCode")
Raised(type) == last.outcome.kind = "raise" /\ last.outcome.exc.type = type
ViaConnection == cls = "ReceiptApiClient"

\* C1: a response with status 400, 401, 403, 422 or 500 is classified by
\* raise_error from the status alone, whatever its errorCode is.
C1_StatusPrecedence ==
    (ViaConnection /\ GotJson /\ LastStatus \in FiveStatuses)
        => Raised(KindOfStatus(LastStatus))

\* status 401 with errorCode 4000 has been classified (as SignatureError)
C1_Witness ==
    /\ ViaConnection /\ GotJson /\ LastStatus = 401
    /\ LastHasCode /\ LastCode.i = 4000
    /\ Raised("SignatureError")

\* C2: a response with any other status and a non-zero errorCode c is
\* classified by raise_error from the band c lies in.
C2_Bands ==
    (ViaConnection /\ GotJson /\ LastStatus \notin FiveStatuses /\ LastHasCode /\ LastCode.i # 0)
        => Raised(KindOfBand(LastCode.i))

\* status 404 with errorCode 4999 has been classified (as PaymentErrors)
C2_Witness ==
    /\ ViaConnection /\ GotJson /\ LastStatus = 404
    /\ LastHasCode /\ LastCode.i = 4999
    /\ Raised("PaymentErrors")

\* C3: a response without errorCode whose status is neither 200 nor one of
\* the five ends the Connection dispatcher's call in UnexpectedError.
C3_AbsentCodeUnexpected ==
    (ViaConnection /\ GotJson /\ ~LastHasCode /\ LastStatus \notin FiveStatuses \cup {200})
        => Raised("UnexpectedError")

\* C4: a call returns a value only if the response had status 200 and an
\* errorCode that is absent or zero.
C4_NoDowngrade ==
    last.outcome.kind = "return"
        => (GotJson /\ LastStatus = 200 /\ (~LastHasCode \/ LastCode.i = 0))

\* C5: on status 200 with a JSON object whose errorCode is absent or 0 the
\* call returns the decoded body unchanged, in both modes and both clients.
C5_SuccessPath ==
    (GotJson /\ LastStatus = 200 /\ (~LastHasCode \/ LastCode.i = 0))
        => /\ last.outcome = Return(LastData)
           /\ dict_get(last.outcome.value, "result") = dict_get(LastData, "result")
           /\ dict_get(last.outcome.value, "errorCode") = LastCode

\* {"errorCode": 0, "result": {"orderId": "X"}} with status 200 has been returned
C5_Witness ==
    /\ GotJson /\ LastStatus = 200 /\ LastHasCode /\ LastCode.i = 0
    /\ dict_get(LastData, "result") = PyOrder("X")
    /\ last.outcome.kind = "return"
    /\ dict_get(last.outcome.value, "result") = PyOrder("X")

\* the request function the other execution mode runs
OtherFn ==
    IF cls = "ApiClient"
    THEN (IF is_async THEN "_post" ELSE "_async_post")
    ELSE (IF is_async THEN "_request" ELSE "_async_request")

\* C6: the request handed to the transport is the one the other execution
\* mode hands over for the same endpoint call, and the call's outcome is the
\* one the other mode reaches on the same transport behaviour.
C6_ModesAgree ==
    /\ sent # NoRequest
          => \E call \in EndpointCalls(cls, base_url, ~is_async) :
                Handed(call) = sent
    /\ last.transport.kind # "none"
          => last.outcome = Finish(OtherFn, last.transport)

\* C7: a transport timeout ends the call in NotResponding, in both modes.
C7_Timeout ==
    last.transport.kind \in {"read_timeout", "connect_timeout"}
        => last.outcome = Raise(NotResponding)

\* a blocking call has ended on a connect timeout
C7_Witness ==
    /\ ~is_async /\ last.transport.kind = "connect_timeout"
    /\ Raised("NotResponding")

\* C8: a connection-level failure before any response ends the call in
\* NetworkError, in both modes and for every such failure.
C8_Connectivity ==
    last.transport.kind \in {"refused", "reset", "disconnected"}
        => last.outcome = Raise(NetworkError)

\* C9: a response whose text is not JSON ends the call in a JSON decode error.
C9_DecodeError ==
    (last.transport.kind = "response" /\ last.transport.text.raw = "not-json")
        => Raised("JSONDecodeError")

\* C10: every close() leaves the session closed and raises nothing, and a
\* close() of a closed session changes nothing of the dispatcher's state.
C10_CloseIdempotent ==
    [][closes' = closes + 1
         => /\ session'.closed
            /\ ~close_raised'
            /\ <<cls, is_async, headers, base_url, sent, pending, last>>'
                 = <<cls, is_async, headers, base_url, sent, pending, last>>
            /\ session.closed => session' = session]_vars

\* close() has run twice after a send that failed
C10_Witness ==
    closes = 2 /\ session.closed /\ ~close_raised /\ last.outcome.kind = "raise"

\* the classified failures: the subclasses of UzumCheckoutException
UzumKinds ==
    {"InternalError", "PaymentErrors", "ValidationError", "AuthenticationError", "BadRequest",
     "SignatureError", "FingerprintError", "InternalServerError", "UnexpectedError"}
Classified == last.outcome.kind = "raise" /\ last.outcome.exc.type \in UzumKinds
LastMessage == dict_get(LastData, "message")

FixedHeaders ==
    {"X-Signature", "Content-Language", "X-Terminal-Id", "Accept", "Accept-Encoding",
     "Cache-Control", "Content-Type"}
OptionalHeaders == {"X-Merchant-Access-Token", "X-Fingerprint", "X-API-Key"}
CredentialOf(h) ==
    CASE h = "X-Merchant-Access-Token" -> args.merchant_access_token
      [] h = "X-Fingerprint" -> args.fingerprint
      [] OTHER -> args.api_key
FixedHeadersRight ==
    /\ FixedHeaders \subseteq DOMAIN headers
    /\ DOMAIN headers \subseteq FixedHeaders \cup OptionalHeaders
    /\ headers["X-Signature"] = args.signature
    /\ headers["X-Terminal-Id"] = args.terminal_id
    /\ headers["Content-Language"] = args.content_language
    /\ headers["Accept"] = "application/json"
    /\ headers["Content-Type"] = "application/json"
    /\ headers["Cache-Control"] = "no-cache"

\* C12 as stated: in every state of an ApiClient the headers are the fixed
\* ones plus one header for each optional credential that was supplied, and
\* none for an omitted one.
C12_HeadersBySupplied ==
    cls = "ApiClient"
        => /\ FixedHeadersRight
           /\ \A h \in OptionalHeaders : (h \in DOMAIN headers) <=> (CredentialOf(h) # PyNone)

\* C12 as amended: the optional header is there, with the credential as its
\* value, exactly when the credential was supplied non-empty; this holds
\* after construction and after every send and close.
C12_HeadersByNonEmpty ==
    cls = "ApiClient"
        => /\ FixedHeadersRight
           /\ \A h \in OptionalHeaders :
                 /\ (h \in DOMAIN headers) <=> Truthy(CredentialOf(h))
                 /\ (h \in DOMAIN headers) => headers[h] = CredentialOf(h).s

\* an ApiClient built with an empty api_key, a fingerprint and no token has
\* sent a request and has been closed
C12_Witness ==
    /\ cls = "ApiClient"
    /\ args.api_key = PyStr("") /\ args.fingerprint = PyStr("fp") /\ args.merchant_access_token = PyNone
    /\ "X-API-Key" \notin DOMAIN headers /\ "X-Fingerprint" \in DOMAIN headers
    /\ sent # NoRequest /\ last.outcome.kind # "none" /\ closes >= 1

\* base_url with the separator added when it is missing
WithSlash(b) == IF b[Len(b)] = "/" THEN b ELSE b \o <<"/">>

\* C13: the stored base_url ends with the separator, for both clients, so
\* every endpoint URL is the given base_url, the separator, the endpoint path.
C13_BaseUrlNormalized ==
    /\ base_url = WithSlash(args.base_url)
    /\ sent # NoRequest
          => \E call \in EndpointCalls(cls, WithSlash(args.base_url), is_async) : sent.url = call.url

\* C14: the session is of the kind of the execution mode, created or
\* supplied, and the mode is the one given at construction.
C14_SessionMatchesMode ==
    /\ is_async = args.is_async
    /\ session.kind = SessionFor(is_async)

Done(i) == tasks.call[i].st = "done"

\* C15: in every interleaving of the transport's deliveries and the tasks'
\* resumptions, a task reading a body holds the status of the response to
\* its own request, and a call that has ended has read what the transport
\* did to its own request and ended in the classification of that.
C15_NoCrossTalk ==
    \A i \in 1..MaxTasks :
        /\ tasks.call[i].st = "reading" => tasks.call[i].status = tasks.wire[i].status
        /\ Done(i) => /\ tasks.call[i].transport = tasks.wire[i].t
                      /\ tasks.call[i].outcome = Finish(tasks.call[i].fn, tasks.wire[i].t)

\* calls in flight together have ended in the order of issue and in the
\* reverse order; of two calls that have ended, one got status 200 and
\* returned its body, the other timed out and ended in NotResponding
C15_Witness ==
    /\ tasks.seen = {"in_order", "reversed"}
    /\ \E i, j \in 1..MaxTasks :
          /\ Done(i) /\ Done(j)
          /\ tasks.wire[i].t.kind = "response" /\ tasks.wire[i].status = 200
          /\ tasks.call[i].outcome = Return(tasks.wire[i].t.text.doc)
          /\ tasks.wire[j].t.kind = "read_timeout"
          /\ tasks.call[j].outcome = Raise(NotResponding)

\* C16: an error raised by the call in the block propagates out of the
\* block, and the block's exit has closed the client.
C16_ErrorPropagates ==
    (ctx.st = "after" /\ ctx.raised # NoExc)
        => (ctx.propagated = ctx.raised /\ session.closed)

====
